---- MODULE Spec2Model ----
(***************************************************************************)
(* Model of the control logic of Pi_Monitor (src/application.py):         *)
(*   - the display power state machine (_wake_hdmi_display,               *)
(*     _set_hdmi_power, _check_hdmi_timeout),                             *)
(*   - the fan hysteresis controller of run_monitor_loop,                 *)
(*   - the four status LEDs of run_monitor_loop,                          *)
(*   - the motion strategies (_init_motion_detection, _pir_motion_loop,   *)
(*     _camera_motion_loop),                                              *)
(*   - the order of the steps of run_monitor_loop and the OLED rotation,  *)
(*   - start-up, handle_signal, cleanup and exit.                         *)
(*                                                                         *)
(* The specifications share the variables:                                *)
(*   SpecDisplay  the handlers of the display state machine run one after *)
(*                the other (no overlap of the motion thread and the      *)
(*                control loop);                                          *)
(*   SpecRace     the same handlers line by line, the motion thread and   *)
(*                the control loop interleaved (the code takes no lock);  *)
(*   SpecFan      the fan controller of the control loop, tick by tick;   *)
(*   SpecLed      the LED mappers over every combination of metrics;      *)
(*   SpecDisk     the disk LED with the disk counters and the clock;      *)
(*   SpecMotion   the choice of the motion strategy and its polls;        *)
(*   SpecBlink    the blink_motion_indicator threads beside the LED       *)
(*                mappers;                                                *)
(*   SpecLoop     run_monitor_loop step by step, iteration by iteration;  *)
(*   SpecLife     construction, signals, cleanup and exit of __main__;    *)
(*   SpecCamera   the camera strategy over many frames, with the files of *)
(*                the capture directory;                                  *)
(*   SpecStop     the camera thread next to the shutdown of the main      *)
(*                thread;                                                 *)
(*   SpecBlinkLive SpecBlink with a control loop that keeps running.      *)
(* Time is in whole seconds.                                              *)
(***************************************************************************)
EXTENDS Integers, Sequences, FiniteSets, TLC

VARIABLES
    now,                \* the wall clock, time.time()
    hdmi_on,            \* self.hdmi_on
    last_activity,      \* self.last_activity
    driver_log,         \* the power_on argument of every _set_hdmi_power call, in order
    driver_ok,          \* the local `success` of the latest _set_hdmi_power call
    driver_tried,       \* the methods the latest _set_hdmi_power call ran: <<name, outcome>>
    blink,              \* per blink_motion_indicator thread: the set_led_color calls left
    n_events,           \* number of MotionEvent deliveries started so far
    last_op,            \* the handler that ran last (SpecDisplay)
    m_pc,               \* motion thread: the line of _wake_hdmi_display it is at
    c_pc,               \* control loop: the line of _check_hdmi_timeout it is at
    la_event,           \* which delivery wrote last_activity (0: the constructor)
    on_event,           \* which delivery last wrote hdmi_on = True (0: none)
    la_since_off,       \* last_activity was written after hdmi_on was last written False
    last_fan_pwm,       \* run_monitor_loop local
    last_fan_pwm_limit, \* run_monitor_loop local
    fan_cmds,           \* the arguments of every expansion.set_fan_duty call, in order
    fan_trace,          \* per tick: the sample read, the fan state after it, the command issued
    snap,               \* the metrics read by the latest tick: <<temp, cpu, mem, disk>>
    disk_activity,      \* what check_disk_activity returned in the latest tick
    last_disk_activity, \* self.last_disk_activity
    last_disk_bytes,    \* self.last_disk_bytes
    led,                \* per LED channel, the colour of the latest set_led_color call
    led_calls,          \* the set_led_color calls of the latest tick, in order
    led_time,           \* time.time() as update_disk_activity_led read it in the latest tick
    motion_pc,          \* "construct": before line 136; "run": after _init_motion_detection
    PIR_AVAILABLE,      \* the module global set by the import of RPi.GPIO
    pir_available,      \* self.pir_available
    pir_initialized,    \* self.pir_initialized
    use_camera_fallback,\* self.use_camera_fallback
    pir_setup,          \* how GPIO.setmode/GPIO.setup ended: "none", "ok", "raise"
    started,            \* the polling threads ever started
    threads,            \* the polling threads still in their while loop
    last_state,         \* _pir_motion_loop local
    last_pir_log_time,  \* self.last_pir_log_time
    pin_trace,          \* the values GPIO.input returned, in order
    pir_logs,           \* number of "PIR motion detected" log lines written
    frame_count,        \* self.frame_count
    frames,             \* size of frame_0.jpg and frame_1.jpg (NO_FRAME: no file)
    mtime,              \* st_mtime of the frame_*.jpg files of capture_dir (0: no such file)
    frame_ids,          \* per slot: value of frame_count + 1 at the capture that wrote it (0: none)
    swept,              \* latest _cleanup_old_frames call: <<mtime before it, it raised>>
    cam_iter,           \* latest camera iteration: <<_capture_frame's result, frame_count and
                        \* n_events before it, tenths of a second slept at its end>>
    last_motion_log_time, \* self.last_motion_log_time
    cam,                \* latest _detect_motion that read both sizes: <<size1, size2, result>>
    poll_error,         \* the latest poll of the strategy met an I/O error
    cam_pc,             \* camera thread: "test" (the while test is next) or "capture"
                        \* (_capture_frame is in progress)
    t_pc,               \* run_monitor_loop: index in TickSteps of the step to run next (0: crashed)
    oled_counter,       \* run_monitor_loop local
    oled_screen,        \* run_monitor_loop local
    oled_renders,       \* every screen shown: <<oled_counter at the render, screen index>>
    tick_log,           \* the steps of the current tick that were run, in order
    n_checks,           \* number of _check_hdmi_timeout calls made by the loop
    cur,                \* the sensor values the current tick read: <<temp, fails, raw>>
    fault,              \* a collaborator raised during the current or an earlier tick
    main_pc,            \* where __main__ is
    stack,              \* the calls on top of __main__ on the main thread, innermost last
    stop_event,         \* self.stop_event.is_set()
    cleanup_done,       \* self.cleanup_done
    cleanup_log,        \* the steps of cleanup that were run, in order
    exit_code,          \* the process exit status (NOT_EXITED while it runs)
    n_signals,          \* SIGTERM/SIGINT deliveries so far
    oled_open,          \* OLED() went through and oled.close() was not called yet
    board_open          \* Expansion() went through and expansion.end() was not called yet

displayVars == <<now, hdmi_on, last_activity, driver_log, driver_ok, driver_tried, blink,
                 n_events,
                 last_op, m_pc, c_pc, la_event, on_event, la_since_off>>
fanVars == <<last_fan_pwm, last_fan_pwm_limit, fan_cmds, fan_trace>>
ledVars == <<snap, disk_activity, last_disk_activity, last_disk_bytes, led, led_calls,
             led_time>>
motionVars == <<motion_pc, PIR_AVAILABLE, pir_available, pir_initialized,
                use_camera_fallback, pir_setup, started, threads, last_state,
                last_pir_log_time, pin_trace, pir_logs, frame_count, frames, mtime, frame_ids, cam_iter, swept,
                last_motion_log_time, cam, poll_error, cam_pc>>
loopVars == <<t_pc, oled_counter, oled_screen, oled_renders, tick_log, n_checks, cur, fault>>
lifeVars == <<main_pc, stack, stop_event, cleanup_done, cleanup_log, exit_code, n_signals,
              oled_open, board_open>>
ctlVars == <<loopVars, lifeVars>>
vars == <<displayVars, fanVars, ledVars, motionVars, ctlVars>>

----------------------------------------------------------------------------
(* Program constants *)

hdmi_timeout == 60
temp_threshold_high == 50
temp_threshold_low == 40
max_pwm == 255
min_pwm == 0
max_retries == 3
PWM_READ_FAILED == 0 - 1
TEMP_READ_FAILED == 0 - 1
motion_sensitivity == 30
NOT_EXITED == 0 - 1
BlinkWrites == 6    \* blink_motion_indicator: 3 times white, then off

(* Bounds of the model *)

StartTime == 1      \* time.time() when the constructor runs; the epoch clock is positive
MaxSpan == 124      \* the clock is followed for MaxSpan seconds after StartTime
MaxEvents == 2      \* MotionEvent deliveries followed
MaxTicks == 4       \* control-loop ticks followed by SpecFan

MaxDiskSpan == 5    \* SpecDisk follows the clock for MaxDiskSpan seconds after StartTime

MaxPolls == 4       \* polls of the PIR pin followed by SpecMotion
MaxFrames == 3      \* frames captured by the camera loop in SpecMotion
MaxCameraFrames == 21 \* frames captured by the camera loop in SpecCamera
MaxStamp == 24      \* writes to capture_dir followed by SpecCamera

MaxSignals == 2     \* SIGTERM/SIGINT deliveries followed by SpecLife
MaxLoopTicks == 13  \* iterations of run_monitor_loop followed by SpecLoop

MaxTime == StartTime + MaxSpan

\* The clock advances by about half the timeout, so that an elapsed time of
\* exactly hdmi_timeout, of hdmi_timeout + 1 and of less are all met.
ClockSteps == {hdmi_timeout \div 2, hdmi_timeout \div 2 + 1}

\* What one control method (one subprocess.run) of the power driver can do.
Outcomes == {"ok", "nonzero", "raise"}

\* The ordered method lists of _set_hdmi_power.
Methods(power_on) ==
    IF power_on THEN <<"xset on", "xrandr auto">>
                ELSE <<"xset standby", "xset off", "xrandr off">>

MethodOutcomes(power_on) == [1..Len(Methods(power_on)) -> Outcomes]

\* CPU temperatures sampled by the control loop, and contents of the pwm1 file.
Temps == {30, 35, 40, 45, 50, 60}
RawPwm == {0 - 1, 128}

\* Metrics sampled by the control loop for the LED indicators: the values on
\* both sides of every threshold of the four mappers.
LedTemps == {39, 40, 50, 55, 56, 60, 70, 71}
CpuLoads == {10, 25, 50, 75, 76, 90, 91}
MemLoads == {10, 80, 81, 90, 91}
DiskLoads == {10, 85, 86, 90, 91, 95, 96}

\* What psutil.disk_io_counters() gives: read_bytes + write_bytes (never
\* negative), no counters at all (-1 here), or an exception (-2 here).
DiskCounters == {0, 4096}
DiskReads == DiskCounters \cup {0 - 1, 0 - 2}

\* What GPIO.input(self.pir_pin) gives: 0, 1, or an exception (-1 here).
PIN_READ_RAISED == 0 - 1
PinReads == {0, 1, PIN_READ_RAISED}

\* The size of the JPEG a successful rpicam-still leaves behind;
\* CAPTURE_FAILED: _capture_frame returned False; NO_FRAME: no such file.
FrameSizes == {0, 970, 1000, 1030, 1031}
CAPTURE_FAILED == 0 - 1
NO_FRAME == 0 - 1
CAPTURE_TORN == 0 - 2

\* The frame_*.jpg names of capture_dir: 0 and 1 are the two slots of the camera
\* loop; the others are files that something else left in /tmp/motion_frames.
FrameNames == 0..3
Captures == FrameSizes \cup {CAPTURE_FAILED}

\* What the board does with the four set_led_color calls of one tick, per
\* channel: every call goes through, none does, or the call on one channel raises.
LedBoards == {[ch \in 0..3 |-> TRUE], [ch \in 0..3 |-> FALSE],
              [ch \in 0..3 |-> ch # 0], [ch \in 0..3 |-> ch # 3]}

\* Length of one pass of the control loop: time.sleep(1) plus the work.
SleepSteps == {1, 2}

----------------------------------------------------------------------------
(* State after Pi_Monitor.__init__ and the locals of run_monitor_loop *)

Init ==
    /\ now = StartTime
    /\ hdmi_on = FALSE
    /\ last_activity = StartTime
    /\ driver_log = <<>>
    /\ driver_ok = FALSE
    /\ driver_tried = <<>>
    /\ blink = <<>>
    /\ n_events = 0
    /\ last_op = "init"
    /\ m_pc = "m_poll"
    /\ c_pc = "c_check"
    /\ la_event = 0
    /\ on_event = 0
    /\ la_since_off = FALSE
    /\ last_fan_pwm = 0
    /\ last_fan_pwm_limit = 0
    /\ fan_cmds = <<>>
    /\ fan_trace = <<>>
    /\ snap = <<>>
    /\ disk_activity = FALSE
    /\ last_disk_activity = StartTime
    /\ last_disk_bytes = 0
    /\ led = [ch \in 0..3 |-> <<0, 0, 0>>]
    /\ led_calls = <<>>
    /\ led_time = StartTime
    /\ motion_pc = "construct"
    /\ PIR_AVAILABLE = FALSE
    /\ pir_available = FALSE
    /\ pir_initialized = FALSE
    /\ use_camera_fallback = FALSE
    /\ pir_setup = "none"
    /\ started = {}
    /\ threads = {}
    /\ last_state = FALSE
    /\ last_pir_log_time = 0
    /\ pin_trace = <<>>
    /\ pir_logs = 0
    /\ frame_count = 0
    /\ frames = [slot \in 0..1 |-> NO_FRAME]
    /\ mtime = [name \in FrameNames |-> 0]
    /\ frame_ids = [slot \in 0..1 |-> 0]
    /\ cam_iter = <<>>
    /\ swept = <<>>
    /\ last_motion_log_time = 0
    /\ cam = <<>>
    /\ poll_error = FALSE
    /\ cam_pc = "test"
    /\ t_pc = 1
    /\ oled_counter = 0
    /\ oled_screen = 0
    /\ oled_renders = <<>>
    /\ tick_log = <<>>
    /\ n_checks = 0
    /\ cur = <<>>
    /\ fault = FALSE
    /\ main_pc = "start"
    /\ stack = <<>>
    /\ stop_event = FALSE
    /\ cleanup_done = FALSE
    /\ cleanup_log = <<>>
    /\ exit_code = NOT_EXITED
    /\ n_signals = 0
    /\ oled_open = FALSE
    /\ board_open = FALSE

----------------------------------------------------------------------------
(* The power driver *)

\* _set_hdmi_power(power_on): every method of the list is run, whatever the
\* earlier ones did; `success` is a local that nothing reads.  The driver
\* writes no attribute of self.
SetHdmiPower_StopAtFirstSuccess(power_on, outs) ==
    LET ran == {i \in DOMAIN outs : \A j \in 1..(i - 1) : outs[j] # "ok"} IN
    /\ driver_log' = Append(driver_log, power_on)
    /\ driver_ok' = (\E i \in DOMAIN outs : outs[i] = "ok")
    /\ driver_tried' = [i \in 1..Cardinality(ran) |-> <<Methods(power_on)[i], outs[i]>>]

SetHdmiPower(power_on, outs) ==
    /\ driver_log' = Append(driver_log, power_on)
    /\ driver_ok' = (\E i \in DOMAIN outs : outs[i] = "ok")
    /\ driver_tried' = [i \in DOMAIN outs |-> <<Methods(power_on)[i], outs[i]>>]

\* The test of _check_hdmi_timeout, lines 702-703.
TimedOut_AtTimeout(on, la, t) == on /\ la > 0 /\ (t - la) >= hdmi_timeout

TimedOut_NoOnTest(on, la, t) == la > 0 /\ (t - la) > hdmi_timeout

TimedOut(on, la, t) == on /\ la > 0 /\ (t - la) > hdmi_timeout

----------------------------------------------------------------------------
(* SpecDisplay: whole handlers *)

\* _wake_hdmi_display, one MotionEvent delivery.
WakeHdmiDisplay_StampWhenOnOnly(outs) ==
    /\ n_events < MaxEvents
    /\ n_events' = n_events + 1
    /\ IF ~hdmi_on
          THEN /\ hdmi_on' = TRUE
               /\ SetHdmiPower(TRUE, outs)
               /\ on_event' = n_events + 1
               /\ UNCHANGED <<last_activity, la_event, la_since_off>>
          ELSE /\ UNCHANGED <<hdmi_on, driver_log, driver_ok, driver_tried, on_event>>
               /\ last_activity' = now
               /\ la_event' = n_events + 1
               /\ la_since_off' = TRUE
    /\ last_op' = "wake"
    /\ blink' = Append(blink, BlinkWrites)
    /\ UNCHANGED <<now, m_pc, c_pc, fanVars, ledVars>>

WakeHdmiDisplay_StampOnWakeOnly(outs) ==
    /\ n_events < MaxEvents
    /\ n_events' = n_events + 1
    /\ IF ~hdmi_on
          THEN /\ hdmi_on' = TRUE
               /\ SetHdmiPower(TRUE, outs)
               /\ on_event' = n_events + 1
               /\ last_activity' = now
               /\ la_event' = n_events + 1
               /\ la_since_off' = TRUE
          ELSE UNCHANGED <<hdmi_on, driver_log, driver_ok, driver_tried, on_event, last_activity,
                         la_event, la_since_off>>
    /\ last_op' = "wake"
    /\ blink' = Append(blink, BlinkWrites)
    /\ UNCHANGED <<now, m_pc, c_pc, fanVars, ledVars>>

WakeHdmiDisplay_ReadBack(outs) ==
    /\ n_events < MaxEvents
    /\ n_events' = n_events + 1
    /\ IF ~hdmi_on
          THEN /\ SetHdmiPower(TRUE, outs)
               /\ hdmi_on' = driver_ok'
               /\ on_event' = n_events + 1
          ELSE UNCHANGED <<hdmi_on, driver_log, driver_ok, driver_tried, on_event>>
    /\ last_activity' = now
    /\ la_event' = n_events + 1
    /\ la_since_off' = TRUE
    /\ last_op' = "wake"
    /\ blink' = Append(blink, BlinkWrites)
    /\ UNCHANGED <<now, m_pc, c_pc, fanVars, ledVars>>

WakeHdmiDisplay(outs) ==
    /\ n_events < MaxEvents
    /\ n_events' = n_events + 1
    /\ IF ~hdmi_on
          THEN /\ hdmi_on' = TRUE
               /\ SetHdmiPower(TRUE, outs)
               /\ on_event' = n_events + 1
          ELSE UNCHANGED <<hdmi_on, driver_log, driver_ok, driver_tried, on_event>>
    /\ last_activity' = now
    /\ la_event' = n_events + 1
    /\ la_since_off' = TRUE
    /\ last_op' = "wake"
    /\ blink' = Append(blink, BlinkWrites)
    /\ UNCHANGED <<now, m_pc, c_pc, fanVars, ledVars>>

\* _check_hdmi_timeout, called first in every iteration of run_monitor_loop.
CheckHdmiTimeout(outs) ==
    /\ IF TimedOut(hdmi_on, last_activity, now)
          THEN /\ hdmi_on' = FALSE
               /\ SetHdmiPower(FALSE, outs)
               /\ la_since_off' = FALSE
          ELSE UNCHANGED <<hdmi_on, driver_log, driver_ok, driver_tried, la_since_off>>
    /\ last_op' = "check"
    /\ UNCHANGED <<now, last_activity, n_events, m_pc, c_pc, la_event, on_event,
                   blink, fanVars, ledVars, motionVars>>

\* Time passes (time.sleep in either loop).
Advance(d) ==
    /\ now + d <= MaxTime
    /\ now' = now + d
    /\ last_op' = "advance"
    /\ UNCHANGED <<hdmi_on, last_activity, driver_log, driver_ok, driver_tried, n_events,
                   m_pc, c_pc, la_event, on_event, la_since_off, blink, fanVars, ledVars, motionVars, ctlVars>>

NextDisplay ==
    \/ \E outs \in MethodOutcomes(TRUE) : WakeHdmiDisplay(outs) /\ UNCHANGED <<motionVars, ctlVars>>
    \/ \E outs \in MethodOutcomes(FALSE) : CheckHdmiTimeout(outs) /\ UNCHANGED ctlVars
    \/ \E d \in ClockSteps : Advance(d)

SpecDisplay == Init /\ [][NextDisplay]_vars

----------------------------------------------------------------------------
(* SpecRace: the same handlers line by line.  _wake_hdmi_display runs on   *)
(* the motion thread, _check_hdmi_timeout on the control loop; the code    *)
(* takes no lock, so the lines of the two handlers interleave freely.      *)

\* The motion loop calls _wake_hdmi_display (line 515 or 560); line 629 starts
\* the blink thread.
MotionArrive ==
    /\ m_pc = "m_poll"
    /\ n_events < MaxEvents
    /\ n_events' = n_events + 1
    /\ blink' = Append(blink, BlinkWrites)
    /\ m_pc' = "m_test"
    /\ UNCHANGED <<now, hdmi_on, last_activity, driver_log, driver_ok, driver_tried, last_op,
                   c_pc, la_event, on_event, la_since_off, fanVars, ledVars, motionVars, ctlVars>>

\* line 632: if not self.hdmi_on
WakeTest ==
    /\ m_pc = "m_test"
    /\ m_pc' = IF ~hdmi_on THEN "m_set_on" ELSE "m_stamp"
    /\ UNCHANGED <<now, hdmi_on, last_activity, driver_log, driver_ok, driver_tried, n_events,
                   last_op, c_pc, la_event, on_event, la_since_off, blink, fanVars, ledVars, motionVars, ctlVars>>

\* line 635: self.hdmi_on = True
WakeSetOn ==
    /\ m_pc = "m_set_on"
    /\ hdmi_on' = TRUE
    /\ on_event' = n_events
    /\ m_pc' = "m_power"
    /\ UNCHANGED <<now, last_activity, driver_log, driver_ok, driver_tried, n_events, last_op,
                   c_pc, la_event, la_since_off, blink, fanVars, ledVars, motionVars, ctlVars>>

\* line 636: self._set_hdmi_power(True) is entered.  The driver runs two or
\* three subprocesses, each for up to 5 s, so a call lasts long enough for the
\* other thread to act while it is in flight.
WakePowerStart ==
    /\ m_pc = "m_power"
    /\ m_pc' = "m_driver"
    /\ UNCHANGED <<now, hdmi_on, last_activity, driver_log, driver_ok, driver_tried, n_events,
                   last_op, c_pc, la_event, on_event, la_since_off, blink, fanVars, ledVars, motionVars, ctlVars>>

\* line 636: self._set_hdmi_power(True) returns
WakePower(outs) ==
    /\ m_pc = "m_driver"
    /\ SetHdmiPower(TRUE, outs)
    /\ m_pc' = "m_stamp"
    /\ UNCHANGED <<now, hdmi_on, last_activity, n_events, last_op, c_pc,
                   la_event, on_event, la_since_off, blink, fanVars, ledVars, motionVars, ctlVars>>

\* line 639: self.last_activity = time.time()
WakeStamp ==
    /\ m_pc = "m_stamp"
    /\ last_activity' = now
    /\ la_event' = n_events
    /\ la_since_off' = TRUE
    /\ m_pc' = "m_poll"
    /\ UNCHANGED <<now, hdmi_on, driver_log, driver_ok, driver_tried, n_events, last_op, c_pc,
                   on_event, blink, fanVars, ledVars, motionVars, ctlVars>>

\* line 702: if self.hdmi_on and self.last_activity > 0
CheckGuard ==
    /\ c_pc = "c_check"
    /\ c_pc' = IF hdmi_on /\ last_activity > 0 THEN "c_elapsed" ELSE "c_rest"
    /\ UNCHANGED <<now, hdmi_on, last_activity, driver_log, driver_ok, driver_tried, n_events,
                   last_op, m_pc, la_event, on_event, la_since_off, blink, fanVars, ledVars, motionVars, ctlVars>>

\* line 703: if (time.time() - self.last_activity) > self.hdmi_timeout
CheckElapsed ==
    /\ c_pc = "c_elapsed"
    /\ c_pc' = IF (now - last_activity) > hdmi_timeout THEN "c_set_off" ELSE "c_rest"
    /\ UNCHANGED <<now, hdmi_on, last_activity, driver_log, driver_ok, driver_tried, n_events,
                   last_op, m_pc, la_event, on_event, la_since_off, blink, fanVars, ledVars, motionVars, ctlVars>>

\* line 706: self.hdmi_on = False
CheckSetOff ==
    /\ c_pc = "c_set_off"
    /\ hdmi_on' = FALSE
    /\ la_since_off' = FALSE
    /\ c_pc' = "c_power"
    /\ UNCHANGED <<now, last_activity, driver_log, driver_ok, driver_tried, n_events, last_op,
                   m_pc, la_event, on_event, blink, fanVars, ledVars, motionVars, ctlVars>>

\* line 707: self._set_hdmi_power(False) is entered
CheckPowerStart ==
    /\ c_pc = "c_power"
    /\ c_pc' = "c_driver"
    /\ UNCHANGED <<now, hdmi_on, last_activity, driver_log, driver_ok, driver_tried, n_events,
                   last_op, m_pc, la_event, on_event, la_since_off, blink, fanVars, ledVars, motionVars, ctlVars>>

\* line 707: self._set_hdmi_power(False) returns
CheckPower_ReadBack(outs) ==
    /\ c_pc = "c_driver"
    /\ SetHdmiPower(FALSE, outs)
    /\ hdmi_on' = ~(\E i \in DOMAIN outs : outs[i] = "ok")
    /\ c_pc' = "c_rest"
    /\ UNCHANGED <<now, last_activity, n_events, last_op, m_pc,
                   la_event, on_event, la_since_off, blink, fanVars, ledVars, motionVars, ctlVars>>

CheckPower(outs) ==
    /\ c_pc = "c_driver"
    /\ SetHdmiPower(FALSE, outs)
    /\ c_pc' = "c_rest"
    /\ UNCHANGED <<now, hdmi_on, last_activity, n_events, last_op, m_pc,
                   la_event, on_event, la_since_off, blink, fanVars, ledVars, motionVars, ctlVars>>

\* lines 813-878: the rest of the iteration, then the next one starts.
LoopRest ==
    /\ c_pc = "c_rest"
    /\ c_pc' = "c_check"
    /\ UNCHANGED <<now, hdmi_on, last_activity, driver_log, driver_ok, driver_tried, n_events,
                   last_op, m_pc, la_event, on_event, la_since_off, blink, fanVars, ledVars, motionVars, ctlVars>>

\* The clock, read by both threads.  A handler in progress lasts far less than
\* one step of this clock (each method of the driver is cut off after 5 s), so
\* the clock steps while the motion loop and the control loop sleep.
ClockTick(d) ==
    /\ m_pc = "m_poll"
    /\ c_pc = "c_rest"
    /\ now + d <= MaxTime
    /\ now' = now + d
    /\ UNCHANGED <<hdmi_on, last_activity, driver_log, driver_ok, driver_tried, n_events, last_op,
                   m_pc, c_pc, la_event, on_event, la_since_off, blink, fanVars, ledVars, motionVars, ctlVars>>

NextRace ==
    \/ MotionArrive
    \/ WakeTest
    \/ WakeSetOn
    \/ WakePowerStart
    \/ \E outs \in MethodOutcomes(TRUE) : WakePower(outs)
    \/ WakeStamp
    \/ CheckGuard
    \/ CheckElapsed
    \/ CheckSetOff
    \/ CheckPowerStart
    \/ \E outs \in MethodOutcomes(FALSE) : CheckPower(outs)
    \/ LoopRest
    \/ \E d \in ClockSteps : ClockTick(d)

SpecRace == Init /\ [][NextRace]_vars

----------------------------------------------------------------------------
(* SpecFan: the fan controller of run_monitor_loop, lines 797-840 *)

\* get_raspberry_fan_pwm: up to max_retries + 1 reads of the pwm1 file; the
\* first read that succeeds returns its value clamped to 0..255, and the
\* sentinel -1 is returned once every attempt has failed.  `fails` is the
\* number of leading attempts that raise, `raw` the integer then read.
GetRaspberryFanPwm(fails, raw) ==
    IF fails > max_retries
       THEN PWM_READ_FAILED
       ELSE IF raw < 0 THEN 0 ELSE IF raw > 255 THEN 255 ELSE raw

\* get_raspberry_cpu_temperature, lines 270-277: the value of the thermal zone
\* file, or 0 when the read raises.  `reading` is the temperature in the file,
\* or TEMP_READ_FAILED.
GetRaspberryCpuTemperature(reading) ==
    IF reading = TEMP_READ_FAILED THEN 0 ELSE reading

\* line 830: if current_fan_pwm != -1
PwmReadable_Always(p) == TRUE

PwmReadable(p) == p # PWM_READ_FAILED

\* line 831: last_fan_pwm_limit == 0 and current_cpu_temp > temp_threshold_high
FanEngage_AtThreshold(limit, t) == limit = 0 /\ t >= temp_threshold_high

FanEngage(limit, t) == limit = 0 /\ t > temp_threshold_high

\* line 836: last_fan_pwm_limit == 1 and current_cpu_temp < temp_threshold_low
FanRelease(limit, t) == limit = 1 /\ t < temp_threshold_low

\* One iteration of the loop as far as the fan goes: the temperature and the
\* fan PWM are read (lines 813, 817) and the controller runs (lines 830-840).
FanTick_KeepLimit(reading, fails, raw) ==
    LET p == GetRaspberryFanPwm(fails, raw)
        t == GetRaspberryCpuTemperature(reading)
    IN
    /\ Len(fan_trace) < MaxTicks
    /\ IF PwmReadable(p) /\ FanEngage(last_fan_pwm_limit, t)
          THEN /\ last_fan_pwm' = max_pwm
               /\ fan_cmds' = Append(fan_cmds, <<max_pwm, max_pwm>>)
               /\ last_fan_pwm_limit' = 1
          ELSE IF PwmReadable(p) /\ t < temp_threshold_low
          THEN /\ last_fan_pwm' = min_pwm
               /\ fan_cmds' = Append(fan_cmds, <<min_pwm, min_pwm>>)
               /\ UNCHANGED last_fan_pwm_limit
          ELSE UNCHANGED <<last_fan_pwm, last_fan_pwm_limit, fan_cmds>>
    /\ fan_trace' = Append(fan_trace,
                           [temp |-> t, temp_ok |-> (reading # TEMP_READ_FAILED),
                            readable |-> (p # PWM_READ_FAILED),
                            limit |-> last_fan_pwm_limit', duty |-> last_fan_pwm',
                            cmd |-> SubSeq(fan_cmds', Len(fan_cmds) + 1, Len(fan_cmds'))])
    /\ UNCHANGED <<displayVars, ledVars, motionVars, ctlVars>>

FanTick(reading, fails, raw) ==
    LET p == GetRaspberryFanPwm(fails, raw)
        t == GetRaspberryCpuTemperature(reading)
    IN
    /\ Len(fan_trace) < MaxTicks
    /\ IF PwmReadable(p)
          THEN IF FanEngage(last_fan_pwm_limit, t)
                  THEN /\ last_fan_pwm' = max_pwm
                       /\ fan_cmds' = Append(fan_cmds, <<max_pwm, max_pwm>>)
                       /\ last_fan_pwm_limit' = 1
               ELSE IF FanRelease(last_fan_pwm_limit, t)
                  THEN /\ last_fan_pwm' = min_pwm
                       /\ fan_cmds' = Append(fan_cmds, <<min_pwm, min_pwm>>)
                       /\ last_fan_pwm_limit' = 0
               ELSE UNCHANGED <<last_fan_pwm, last_fan_pwm_limit, fan_cmds>>
          ELSE UNCHANGED <<last_fan_pwm, last_fan_pwm_limit, fan_cmds>>
    /\ fan_trace' = Append(fan_trace,
                           [temp |-> t, temp_ok |-> (reading # TEMP_READ_FAILED),
                            readable |-> (p # PWM_READ_FAILED),
                            limit |-> last_fan_pwm_limit', duty |-> last_fan_pwm',
                            cmd |-> SubSeq(fan_cmds', Len(fan_cmds) + 1, Len(fan_cmds'))])
    /\ UNCHANGED <<displayVars, ledVars, motionVars, ctlVars>>

NextFan ==
    \E reading \in Temps \cup {TEMP_READ_FAILED}, fails \in 0..(max_retries + 1),
       raw \in RawPwm :
        FanTick(reading, fails, raw)

SpecFan == Init /\ [][NextFan]_vars

----------------------------------------------------------------------------
(* SpecLed and SpecDisk: the status indicator mappers, lines 331-420, as   *)
(* run_monitor_loop calls them (lines 813-824).  A mapper's result is the  *)
(* set_led_color call it issues: <<channel, <<r, g, b>>>>.                 *)

\* update_temperature_led: LED 0
UpdateTemperatureLed_WarmAbove40(temp) ==
    IF temp <= 40 THEN <<0, <<0, 255, 0>>>>
    ELSE IF temp < 50 THEN <<0, <<255, 255, 0>>>>
    ELSE IF temp < 60 THEN <<0, <<255, 165, 0>>>>
    ELSE <<0, <<255, 0, 0>>>>

UpdateTemperatureLed(temp) ==
    IF temp < 40 THEN <<0, <<0, 255, 0>>>>
    ELSE IF temp < 50 THEN <<0, <<255, 255, 0>>>>
    ELSE IF temp < 60 THEN <<0, <<255, 165, 0>>>>
    ELSE <<0, <<255, 0, 0>>>>

\* update_cpu_load_led: LED 1
UpdateCpuLoadLed_HeavyAbove75(cpu_percent) ==
    IF cpu_percent < 25 THEN <<1, <<0, 0, 255>>>>
    ELSE IF cpu_percent < 50 THEN <<1, <<0, 255, 0>>>>
    ELSE IF cpu_percent <= 75 THEN <<1, <<255, 255, 0>>>>
    ELSE <<1, <<255, 0, 0>>>>

UpdateCpuLoadLed(cpu_percent) ==
    IF cpu_percent < 25 THEN <<1, <<0, 0, 255>>>>
    ELSE IF cpu_percent < 50 THEN <<1, <<0, 255, 0>>>>
    ELSE IF cpu_percent < 75 THEN <<1, <<255, 255, 0>>>>
    ELSE <<1, <<255, 0, 0>>>>

\* check_disk_activity: the new <<last_disk_activity, last_disk_bytes, result>>
\* for the counter reading io taken at time t.
CheckDiskActivity(io, t, lda, ldb) ==
    IF io \in DiskCounters /\ io # ldb
       THEN <<t, io, TRUE>>
       ELSE <<lda, ldb, FALSE>>

\* update_disk_activity_led: LED 2; t is time.time(), lda self.last_disk_activity
UpdateDiskActivityLed_ActivityFirst(disk_usage_percent, has_activity, t, lda) ==
    IF has_activity THEN <<2, <<255, 255, 255>>>>
    ELSE IF disk_usage_percent > 90 THEN <<2, <<255, 0, 0>>>>
    ELSE IF (t - lda) < 2 THEN <<2, <<255, 255, 255>>>>
    ELSE <<2, <<0, 0, 100>>>>

UpdateDiskActivityLed_GraceInclusive(disk_usage_percent, has_activity, t, lda) ==
    IF disk_usage_percent > 90 THEN <<2, <<255, 0, 0>>>>
    ELSE IF has_activity THEN <<2, <<255, 255, 255>>>>
    ELSE IF (t - lda) <= 2 THEN <<2, <<255, 255, 255>>>>
    ELSE <<2, <<0, 0, 100>>>>

UpdateDiskActivityLed(disk_usage_percent, has_activity, t, lda) ==
    IF disk_usage_percent > 90 THEN <<2, <<255, 0, 0>>>>
    ELSE IF has_activity THEN <<2, <<255, 255, 255>>>>
    ELSE IF (t - lda) < 2 THEN <<2, <<255, 255, 255>>>>
    ELSE <<2, <<0, 0, 100>>>>

\* update_system_health_led: LED 3
UpdateSystemHealthLed_WarningFirst(temp, cpu_percent, mem_percent, disk_percent) ==
    LET critical_conditions ==
            temp > 70 \/ cpu_percent > 90 \/ mem_percent > 90 \/ disk_percent > 95
        warning_conditions ==
            temp > 55 \/ cpu_percent > 75 \/ mem_percent > 80 \/ disk_percent > 85
    IN  IF warning_conditions THEN <<3, <<255, 255, 0>>>>
        ELSE IF critical_conditions THEN <<3, <<255, 0, 0>>>>
        ELSE <<3, <<0, 255, 0>>>>

UpdateSystemHealthLed_OnDiskChannel(temp, cpu_percent, mem_percent, disk_percent) ==
    LET critical_conditions ==
            temp > 70 \/ cpu_percent > 90 \/ mem_percent > 90 \/ disk_percent > 95
        warning_conditions ==
            temp > 55 \/ cpu_percent > 75 \/ mem_percent > 80 \/ disk_percent > 85
    IN  IF critical_conditions THEN <<2, <<255, 0, 0>>>>
        ELSE IF warning_conditions THEN <<2, <<255, 255, 0>>>>
        ELSE <<2, <<0, 255, 0>>>>

UpdateSystemHealthLed_WarningAbove60(temp, cpu_percent, mem_percent, disk_percent) ==
    LET critical_conditions ==
            temp > 70 \/ cpu_percent > 90 \/ mem_percent > 90 \/ disk_percent > 95
        warning_conditions ==
            temp > 60 \/ cpu_percent > 75 \/ mem_percent > 80 \/ disk_percent > 85
    IN  IF critical_conditions THEN <<3, <<255, 0, 0>>>>
        ELSE IF warning_conditions THEN <<3, <<255, 255, 0>>>>
        ELSE <<3, <<0, 255, 0>>>>

UpdateSystemHealthLed(temp, cpu_percent, mem_percent, disk_percent) ==
    LET critical_conditions ==
            temp > 70 \/ cpu_percent > 90 \/ mem_percent > 90 \/ disk_percent > 95
        warning_conditions ==
            temp > 55 \/ cpu_percent > 75 \/ mem_percent > 80 \/ disk_percent > 85
    IN  IF critical_conditions THEN <<3, <<255, 0, 0>>>>
        ELSE IF warning_conditions THEN <<3, <<255, 255, 0>>>>
        ELSE <<3, <<0, 255, 0>>>>

\* The expansion board after a sequence of set_led_color calls.
RECURSIVE SetLedColors(_, _)
SetLedColors(l, calls) ==
    IF calls = <<>> THEN l
    ELSE SetLedColors([l EXCEPT ![calls[1][1]] = calls[1][2]], Tail(calls))

\* One iteration of the loop as far as the indicators go: the metrics are read
\* (lines 813-816), check_disk_activity runs (line 818) and the four mappers
\* are called in order (lines 821-824).
LedTick(temp, cpu, mem, disk, io) ==
    LET act == CheckDiskActivity(io, now, last_disk_activity, last_disk_bytes)
        calls == << UpdateTemperatureLed(temp),
                    UpdateCpuLoadLed(cpu),
                    UpdateDiskActivityLed(disk, act[3], now, act[1]),
                    UpdateSystemHealthLed(temp, cpu, mem, disk) >>
    IN  /\ snap' = <<temp, cpu, mem, disk>>
        /\ last_disk_activity' = act[1]
        /\ last_disk_bytes' = act[2]
        /\ disk_activity' = act[3]
        /\ led_calls' = calls
        /\ led' = SetLedColors(led, calls)
        /\ led_time' = now
        /\ UNCHANGED <<displayVars, fanVars, motionVars, ctlVars>>

\* SpecLed: every combination of the four metrics, the disk counters at rest.
NextLed ==
    \E temp \in LedTemps, cpu \in CpuLoads, mem \in MemLoads, disk \in DiskLoads :
        LedTick(temp, cpu, mem, disk, last_disk_bytes)

SpecLed == Init /\ [][NextLed]_vars

\* line 878: time.sleep(1) at the end of the iteration
LoopSleep(d) ==
    /\ now + d <= StartTime + MaxDiskSpan
    /\ now' = now + d
    /\ UNCHANGED <<hdmi_on, last_activity, driver_log, driver_ok, driver_tried, n_events, last_op,
                   m_pc, c_pc, la_event, on_event, la_since_off, blink, fanVars, ledVars, motionVars, ctlVars>>

\* SpecDisk: the disk counters, the disk usage and the clock vary; the other
\* metrics stay at rest.
NextDisk ==
    \/ \E disk \in {10, 90, 91}, io \in DiskReads : LedTick(40, 10, 10, disk, io)
    \/ \E d \in SleepSteps : LoopSleep(d)

SpecDisk == Init /\ [][NextDisk]_vars

----------------------------------------------------------------------------
(* SpecMotion: the choice of the motion strategy and its polling loop *)

\* _init_motion_detection (called at line 136) with _init_pir_sensor and
\* _start_camera_motion_detection.  `capability` is whether RPi.GPIO could be
\* imported (lines 28-33, copied to self.pir_available at line 63); `setup` is
\* how GPIO.setmode/GPIO.setup end.  A PIR initialisation that goes through
\* sleeps 5 s before it starts the thread.
InitMotionDetection_NoFallback(capability, setup) ==
    /\ motion_pc = "construct"
    /\ setup \in (IF capability THEN {"ok", "raise"} ELSE {"none"})
    /\ PIR_AVAILABLE' = capability
    /\ pir_setup' = setup
    /\ IF capability /\ setup = "ok"
          THEN /\ now' = now + 5
               /\ pir_available' = TRUE
               /\ pir_initialized' = TRUE
               /\ use_camera_fallback' = FALSE
               /\ started' = {"pir"}
               /\ threads' = {"pir"}
          ELSE /\ now' = now
               /\ pir_available' = FALSE
               /\ pir_initialized' = FALSE
               /\ use_camera_fallback' = ~capability
               /\ started' = IF capability THEN {} ELSE {"camera"}
               /\ threads' = IF capability THEN {} ELSE {"camera"}
    /\ motion_pc' = "run"
    /\ UNCHANGED <<hdmi_on, last_activity, driver_log, driver_ok, driver_tried, n_events, last_op,
                   m_pc, c_pc, la_event, on_event, la_since_off, blink, fanVars, ledVars,
                   last_state, last_pir_log_time, pin_trace, pir_logs, frame_count,
                   frames, mtime, frame_ids, cam_iter, swept, last_motion_log_time, cam,
                   poll_error, cam_pc, ctlVars>>

InitMotionDetection(capability, setup) ==
    /\ motion_pc = "construct"
    /\ setup \in (IF capability THEN {"ok", "raise"} ELSE {"none"})
    /\ PIR_AVAILABLE' = capability
    /\ pir_setup' = setup
    /\ IF capability /\ setup = "ok"
          THEN /\ now' = now + 5
               /\ pir_available' = TRUE
               /\ pir_initialized' = TRUE
               /\ use_camera_fallback' = FALSE
               /\ started' = {"pir"}
               /\ threads' = {"pir"}
          ELSE /\ now' = now
               /\ pir_available' = FALSE
               /\ pir_initialized' = FALSE
               /\ use_camera_fallback' = TRUE
               /\ started' = {"camera"}
               /\ threads' = {"camera"}
    /\ motion_pc' = "run"
    /\ UNCHANGED <<hdmi_on, last_activity, driver_log, driver_ok, driver_tried, n_events, last_op,
                   m_pc, c_pc, la_event, on_event, la_since_off, blink, fanVars, ledVars,
                   last_state, last_pir_log_time, pin_trace, pir_logs, frame_count,
                   frames, mtime, frame_ids, cam_iter, swept, last_motion_log_time, cam,
                   poll_error, cam_pc, ctlVars>>

\* The throttle of the diagnostic log, lines 510 and 554.  time.time() is epoch
\* seconds, so with the initial 0 the first line is always written; the model's
\* clock starts at StartTime, so 0 is read as "never written".
LogDue(t, last_log_time) == last_log_time = 0 \/ (t - last_log_time) >= 30

\* line 507: current_state and not last_state
PirRising_Level(current_state, previous_state) == current_state

PirRising(current_state, previous_state) == current_state /\ ~previous_state

\* One iteration of the while of _pir_motion_loop.  The try of line 502 is
\* around the whole loop: an exception of GPIO.input is caught outside the
\* while, and the function (the thread) ends.
PirPoll(read, outs) ==
    /\ motion_pc = "run"
    /\ "pir" \in threads
    /\ Len(pin_trace) < MaxPolls
    /\ IF read = PIN_READ_RAISED
          THEN /\ threads' = threads \ {"pir"}
               /\ poll_error' = TRUE
               /\ UNCHANGED <<displayVars, fanVars, ledVars, last_state,
                              last_pir_log_time, pin_trace, pir_logs>>
          ELSE /\ pin_trace' = Append(pin_trace, read)
               /\ last_state' = (read = 1)
               /\ poll_error' = FALSE
               /\ threads' = threads
               /\ IF PirRising(read = 1, last_state)
                     THEN /\ IF LogDue(now, last_pir_log_time)
                                THEN /\ last_pir_log_time' = now
                                     /\ pir_logs' = pir_logs + 1
                                ELSE UNCHANGED <<last_pir_log_time, pir_logs>>
                          /\ WakeHdmiDisplay(outs)
                     ELSE UNCHANGED <<displayVars, fanVars, ledVars,
                                      last_pir_log_time, pir_logs>>
    /\ UNCHANGED <<motion_pc, PIR_AVAILABLE, pir_available, pir_initialized,
                   use_camera_fallback, pir_setup, started, frame_count, frames, mtime, frame_ids, cam_iter, swept,
                   last_motion_log_time, cam, cam_pc, ctlVars>>

\* _detect_motion once both files exist: size1 is the previous frame, size2 the
\* current one.  diff_percent > motion_sensitivity / 10 is computed in floats;
\* it is written here without the division (for motion_sensitivity = 30 and the
\* sizes of FrameSizes the float result is the exact one).
DetectMotion_CurrentDenominator(size1, size2) ==
    IF size2 = 0 THEN FALSE
    ELSE (IF size1 > size2 THEN size1 - size2 ELSE size2 - size1) * 100 * 10
            > motion_sensitivity * size2

DetectMotion(size1, size2) ==
    IF size1 = 0 THEN FALSE
    ELSE (IF size1 > size2 THEN size1 - size2 ELSE size2 - size1) * 100 * 10
            > motion_sensitivity * size1

\* The next st_mtime a write to capture_dir gets: later than every file there.
NextStamp(mt) == 1 + (CHOOSE m \in {mt[name] : name \in FrameNames} :
                         \A name \in FrameNames : mt[name] <= m)

\* _cleanup_old_frames, lines 614-623: with more than two frame_*.jpg files,
\* sort them by st_mtime and unlink all but the last two, oldest first.
\* `unlinks_ok` is the number of unlink calls that go through before one raises
\* (the except of line 622 ends the function silently).
CleanupOldFrames_KeepOldest(mt, unlinks_ok) ==
    LET files == {name \in FrameNames : mt[name] # 0}
        doomed == {name \in files :
                      Cardinality({k \in files : mt[k] < mt[name]}) >= 2}
        gone == {name \in doomed :
                    Cardinality({k \in doomed : mt[k] < mt[name]}) < unlinks_ok}
    IN IF Cardinality(files) > 2
          THEN [name \in FrameNames |-> IF name \in gone THEN 0 ELSE mt[name]]
          ELSE mt

CleanupOldFrames(mt, unlinks_ok) ==
    LET files == {name \in FrameNames : mt[name] # 0}
        doomed == {name \in files :
                      Cardinality({k \in files : mt[k] > mt[name]}) >= 2}
        gone == {name \in doomed :
                    Cardinality({k \in doomed : mt[k] < mt[name]}) < unlinks_ok}
    IN IF Cardinality(files) > 2
          THEN [name \in FrameNames |-> IF name \in gone THEN 0 ELSE mt[name]]
          ELSE mt

\* line 565
SweepDue(count) == count % 20 = 0

\* line 550: the comparison is made only from the second frame on
HasPrevious_FromFirst(count) == TRUE

HasPrevious(count) == count > 0

\* lines 571 and 573: time.sleep(1) after a failed capture, time.sleep(0.5) at
\* the end of every iteration; in tenths of a second.
IterationSleep_NoBackoff(captured) == 5

IterationSleep(captured) == IF captured THEN 5 ELSE 10 + 5

\* One iteration of the while of _camera_motion_loop.  `capture` is the size of
\* the file a successful _capture_frame wrote, CAPTURE_FAILED (_capture_frame
\* returned False and left the file alone) or CAPTURE_TORN (it returned False
\* and left an empty file); `stat_ok` is whether os.path.getsize goes through
\* (_detect_motion turns its exception into False); `unlinks_ok` is for
\* _cleanup_old_frames.  The helpers catch their own exceptions.
CameraPoll(capture, stat_ok, unlinks_ok, outs) ==
    /\ motion_pc = "run"
    /\ "camera" \in threads
    /\ LET current == frame_count % 2
           previous == (frame_count + 1) % 2
           compared == HasPrevious(frame_count) /\ frames[previous] # NO_FRAME
           motion == compared /\ stat_ok /\ DetectMotion(frames[previous], capture)
           written == [mtime EXCEPT ![current] = NextStamp(mtime)]
           kept == CleanupOldFrames(written, unlinks_ok)
       IN IF capture \in {CAPTURE_FAILED, CAPTURE_TORN}
             THEN /\ poll_error' = TRUE
                  /\ cam_iter' = <<FALSE, frame_count, n_events, IterationSleep(FALSE)>>
                  /\ IF capture = CAPTURE_TORN
                        THEN /\ frames' = [frames EXCEPT ![current] = 0]
                             /\ mtime' = written
                             /\ frame_ids' = [frame_ids EXCEPT ![current] = 0]
                        ELSE UNCHANGED <<frames, mtime, frame_ids>>
                  /\ UNCHANGED <<displayVars, fanVars, ledVars, frame_count,
                                 last_motion_log_time, cam, swept>>
             ELSE /\ frame_count' = frame_count + 1
                  /\ cam_iter' = <<TRUE, frame_count, n_events, IterationSleep(TRUE)>>
                  /\ cam' = IF compared /\ stat_ok
                               THEN <<frames[previous], capture, motion>>
                               ELSE <<>>
                  /\ IF SweepDue(frame_count + 1)
                        THEN /\ mtime' = kept
                             /\ swept' = <<written,
                                          kept # CleanupOldFrames(written,
                                                                  Cardinality(FrameNames))>>
                             /\ frames' = [slot \in 0..1 |->
                                             IF kept[slot] = 0 THEN NO_FRAME
                                             ELSE IF slot = current THEN capture
                                             ELSE frames[slot]]
                             /\ frame_ids' = [slot \in 0..1 |->
                                                IF kept[slot] = 0 THEN 0
                                                ELSE IF slot = current THEN frame_count + 1
                                                ELSE frame_ids[slot]]
                             /\ poll_error' = ((compared /\ ~stat_ok) \/ swept'[2])
                        ELSE /\ mtime' = written
                             /\ swept' = swept
                             /\ frames' = [frames EXCEPT ![current] = capture]
                             /\ frame_ids' = [frame_ids EXCEPT ![current] = frame_count + 1]
                             /\ poll_error' = (compared /\ ~stat_ok)
                  /\ IF motion
                        THEN /\ last_motion_log_time' =
                                    IF LogDue(now, last_motion_log_time)
                                       THEN now ELSE last_motion_log_time
                             /\ WakeHdmiDisplay(outs)
                        ELSE UNCHANGED <<displayVars, fanVars, ledVars,
                                         last_motion_log_time>>
    /\ UNCHANGED <<motion_pc, PIR_AVAILABLE, pir_available, pir_initialized,
                   use_camera_fallback, pir_setup, started, threads, last_state,
                   last_pir_log_time, pin_trace, pir_logs, ctlVars>>

\* The power driver under the motion strategies: every method goes through, or
\* none does (the driver's own cases are SpecDisplay's).
WakeOutcomes == {<<"ok", "ok">>, <<"nonzero", "raise">>}

NextMotion ==
    \/ \E capability \in BOOLEAN, setup \in {"none", "ok", "raise"} :
          InitMotionDetection(capability, setup)
    \/ \E read \in PinReads, outs \in WakeOutcomes : PirPoll(read, outs)
    \/ \E capture \in Captures, stat_ok \in BOOLEAN, outs \in WakeOutcomes :
          frame_count < MaxFrames /\ CameraPoll(capture, stat_ok, 0, outs) /\ UNCHANGED cam_pc
    \/ \E d \in ClockSteps : Advance(d)

SpecMotion == Init /\ [][NextMotion]_vars

----------------------------------------------------------------------------
(* SpecCamera: the camera strategy over many frames, with the files of      *)
(* capture_dir                                                              *)

\* Line 535, mkdir(exist_ok=True): /tmp/motion_frames may be there before the
\* thread starts, with frame_*.jpg files in it (a slot file that an earlier
\* run left behind, or any other file of that name pattern).  The files are
\* taken oldest first from the highest name down.
StaleFile(name) ==
    /\ motion_pc = "construct"
    /\ mtime[name] = 0
    /\ name >= 1
    /\ \A other \in FrameNames : other > name => mtime[other] # 0
    /\ mtime' = [mtime EXCEPT ![name] = NextStamp(mtime)]
    /\ frames' = IF name \in 0..1 THEN [frames EXCEPT ![name] = 1000] ELSE frames
    /\ UNCHANGED <<displayVars, fanVars, ledVars, ctlVars, motion_pc, PIR_AVAILABLE,
                   pir_available, pir_initialized, use_camera_fallback, pir_setup,
                   started, threads, last_state, last_pir_log_time, pin_trace,
                   pir_logs, frame_count, frame_ids, cam_iter, swept,
                   last_motion_log_time, cam, poll_error, cam_pc>>

NextCamera ==
    \/ \E name \in FrameNames : StaleFile(name)
    \/ InitMotionDetection(FALSE, "none")
    \/ \E capture \in {1000, 1031, CAPTURE_FAILED, CAPTURE_TORN}, unlinks_ok \in 0..2 :
          /\ frame_count < MaxCameraFrames
          /\ NextStamp(mtime) <= MaxStamp
          /\ CameraPoll(capture, TRUE, unlinks_ok, <<"ok", "ok">>)
          /\ UNCHANGED cam_pc

SpecCamera == Init /\ [][NextCamera]_vars

----------------------------------------------------------------------------
(* SpecBlink: the blink threads that _wake_hdmi_display starts, next to the *)
(* indicator writes of the control loop                                     *)

\* One set_led_color call of blink_motion_indicator on thread i: LED 3 bright
\* white, then off, three times over.  A raising board ends the thread
\* (except: pass).
BlinkWrite_OnDiskChannel(i, board_ok) ==
    /\ i \in DOMAIN blink
    /\ blink[i] > 0
    /\ IF board_ok
          THEN /\ led' = [led EXCEPT ![2] = IF blink[i] % 2 = 0 THEN <<255, 255, 255>>
                                                              ELSE <<0, 0, 0>>]
               /\ blink' = [blink EXCEPT ![i] = blink[i] - 1]
          ELSE /\ led' = led
               /\ blink' = [blink EXCEPT ![i] = 0]
    /\ UNCHANGED <<now, hdmi_on, last_activity, driver_log, driver_ok, driver_tried,
                   n_events, last_op, m_pc, c_pc, la_event, on_event, la_since_off,
                   fanVars, snap, disk_activity, last_disk_activity, last_disk_bytes,
                   led_calls, led_time, motionVars, ctlVars>>

BlinkWrite(i, board_ok) ==
    /\ i \in DOMAIN blink
    /\ blink[i] > 0
    /\ IF board_ok
          THEN /\ led' = [led EXCEPT ![3] = IF blink[i] % 2 = 0 THEN <<255, 255, 255>>
                                                              ELSE <<0, 0, 0>>]
               /\ blink' = [blink EXCEPT ![i] = blink[i] - 1]
          ELSE /\ led' = led
               /\ blink' = [blink EXCEPT ![i] = 0]
    /\ UNCHANGED <<now, hdmi_on, last_activity, driver_log, driver_ok, driver_tried,
                   n_events, last_op, m_pc, c_pc, la_event, on_event, la_since_off,
                   fanVars, snap, disk_activity, last_disk_activity, last_disk_bytes,
                   led_calls, led_time, motionVars, ctlVars>>

NextBlink ==
    \/ \E outs \in MethodOutcomes(TRUE) : WakeHdmiDisplay(outs) /\ UNCHANGED <<motionVars, ctlVars>>
    \/ \E i \in 1..MaxEvents, board_ok \in BOOLEAN : BlinkWrite(i, board_ok)
    \/ \E temp \in {40, 56, 71} : LedTick(temp, 10, 10, 10, last_disk_bytes)

SpecBlink == Init /\ [][NextBlink]_vars

\* The same with a control loop that keeps running: the while of line 808 has
\* no exit but stop_event, and every iteration calls update_system_health_led
\* (line 824), so the indicator writes cannot be put off for ever.
BlinkLoopTick == \E temp \in {40, 56, 71} : LedTick(temp, 10, 10, 10, last_disk_bytes)

SpecBlinkLive == SpecBlink /\ WF_vars(BlinkLoopTick)

----------------------------------------------------------------------------
(* SpecLoop: run_monitor_loop step by step, with collaborators that can raise *)

\* The steps of one iteration of the while, in the order of lines 810-878.
TickSteps_SensorsFirst == <<"sensors", "check", "leds", "fan", "oled", "sleep">>

TickSteps_FanBeforeLeds == <<"check", "sensors", "fan", "leds", "oled", "sleep">>

TickSteps == <<"check", "sensors", "leds", "fan", "oled", "sleep">>

AtStep(name) == t_pc > 0 /\ TickSteps[t_pc] = name
StepDone(name) ==
    /\ t_pc' = (t_pc % Len(TickSteps)) + 1
    /\ tick_log' = Append(IF t_pc = 1 THEN <<>> ELSE tick_log, name)

\* line 843: if oled_counter % 3 == 0
OledDue_OffByOne(counter) == counter % 3 = 1

OledDue(counter) == counter % 3 = 0

\* line 810: self._check_hdmi_timeout()
LoopCheck(outs) ==
    /\ AtStep("check")
    /\ motion_pc = "run"
    /\ oled_counter < MaxLoopTicks
    /\ CheckHdmiTimeout(outs)
    /\ StepDone("timeout")
    /\ n_checks' = n_checks + 1
    /\ UNCHANGED <<oled_counter, oled_screen, oled_renders, cur, fault, lifeVars>>

\* lines 813-818: the sensor readers, each with its fallback value, and
\* check_disk_activity (the disk counters are at rest here).
LoopSensors(temp, fails, raw) ==
    /\ AtStep("sensors")
    /\ cur' = <<temp, fails, raw>>
    /\ disk_activity' = CheckDiskActivity(last_disk_bytes, now, last_disk_activity,
                                          last_disk_bytes)[3]
    /\ StepDone("sensors")
    /\ UNCHANGED <<displayVars, fanVars, snap, last_disk_activity, last_disk_bytes, led,
                   led_calls, led_time, motionVars, oled_counter, oled_screen,
                   oled_renders, n_checks, fault, lifeVars>>

\* lines 821-824: the four mappers.  board[ch] is whether set_led_color goes
\* through on channel ch; each mapper swallows the exception (except: pass).
LoopLeds(board) ==
    /\ AtStep("leds")
    /\ cur # <<>>
    /\ LET calls == << UpdateTemperatureLed(cur[1]),
                       UpdateCpuLoadLed(10),
                       UpdateDiskActivityLed(10, disk_activity, now, last_disk_activity),
                       UpdateSystemHealthLed(cur[1], 10, 10, 10) >>
           through(call) == board[call[1]]
       IN /\ snap' = <<cur[1], 10, 10, 10>>
          /\ led_calls' = calls
          /\ led' = SetLedColors(led, SelectSeq(calls, through))
          /\ led_time' = now
          /\ fault' = (fault \/ \E ch \in 0..3 : ~board[ch])
    /\ StepDone("leds")
    /\ UNCHANGED <<displayVars, fanVars, disk_activity, last_disk_activity,
                   last_disk_bytes, motionVars, oled_counter, oled_screen, oled_renders,
                   n_checks, cur, lifeVars>>

\* lines 830-840: the fan controller.  set_fan_duty is called outside any try:
\* when the board raises, the exception leaves run_monitor_loop (last_fan_pwm
\* is already assigned, last_fan_pwm_limit is not).
LoopFan(board_ok) ==
    /\ AtStep("fan")
    /\ cur # <<>>
    /\ LET p == GetRaspberryFanPwm(cur[2], cur[3])
           engage == PwmReadable(p) /\ FanEngage(last_fan_pwm_limit, cur[1])
           release == PwmReadable(p) /\ ~engage /\ FanRelease(last_fan_pwm_limit, cur[1])
       IN IF engage \/ release
             THEN /\ last_fan_pwm' = IF engage THEN max_pwm ELSE min_pwm
                  /\ IF board_ok
                        THEN /\ fan_cmds' = Append(fan_cmds, <<last_fan_pwm', last_fan_pwm'>>)
                             /\ last_fan_pwm_limit' = IF engage THEN 1 ELSE 0
                             /\ StepDone("fan")
                             /\ fault' = fault
                        ELSE /\ t_pc' = 0
                             /\ tick_log' = Append(tick_log, "fan")
                             /\ fault' = TRUE
                             /\ UNCHANGED <<fan_cmds, last_fan_pwm_limit>>
             ELSE /\ board_ok
                  /\ StepDone("fan")
                  /\ UNCHANGED <<last_fan_pwm, last_fan_pwm_limit, fan_cmds, fault>>
    /\ UNCHANGED <<displayVars, fan_trace, ledVars, motionVars, oled_counter, oled_screen,
                   oled_renders, n_checks, cur, lifeVars>>

\* lines 843-877: every third iteration the next screen is drawn and shown
\* (oled.clear, draw_text, show: no try around them), then oled_counter += 1.
LoopOled(oled_ok) ==
    /\ AtStep("oled")
    /\ IF OledDue(oled_counter)
          THEN IF oled_ok
                  THEN /\ oled_renders' = Append(oled_renders, <<oled_counter, oled_screen>>)
                       /\ oled_screen' = (oled_screen + 1) % 4
                       /\ oled_counter' = oled_counter + 1
                       /\ StepDone("oled")
                       /\ fault' = fault
                  ELSE /\ t_pc' = 0
                       /\ tick_log' = Append(tick_log, "oled")
                       /\ fault' = TRUE
                       /\ UNCHANGED <<oled_renders, oled_screen, oled_counter>>
          ELSE /\ oled_ok
               /\ oled_counter' = oled_counter + 1
               /\ StepDone("oled")
               /\ UNCHANGED <<oled_renders, oled_screen, fault>>
    /\ UNCHANGED <<displayVars, fanVars, ledVars, motionVars, n_checks, cur, lifeVars>>

\* line 878: time.sleep(1)
LoopSleepTick ==
    /\ AtStep("sleep")
    /\ now' = now + 1
    /\ StepDone("sleep")
    /\ UNCHANGED <<hdmi_on, last_activity, driver_log, driver_ok, driver_tried, blink,
                   n_events, last_op, m_pc, c_pc, la_event, on_event, la_since_off,
                   fanVars, ledVars, motionVars, oled_counter, oled_screen, oled_renders,
                   n_checks, cur, fault, lifeVars>>

NextLoop ==
    \/ \E capability \in BOOLEAN, setup \in {"none", "ok", "raise"} :
          InitMotionDetection(capability, setup)
    \/ \E outs \in {[i \in 1..3 |-> "ok"]} : LoopCheck(outs)
    \/ \E temp \in {30, 60}, fails \in {0, max_retries + 1} : LoopSensors(temp, fails, 128)
    \/ \E board \in LedBoards : LoopLeds(board)
    \/ \E board_ok \in BOOLEAN : LoopFan(board_ok)
    \/ \E oled_ok \in BOOLEAN : LoopOled(oled_ok)
    \/ LoopSleepTick

SpecLoop == Init /\ [][NextLoop]_vars

----------------------------------------------------------------------------
(* SpecLife: the process from __main__ to its exit: the constructor's       *)
(* hardware initialisation, the signal handler, cleanup, the finally block  *)
(* and the atexit hook.  Python runs a signal handler on the main thread,   *)
(* between two instructions of whatever the main thread is doing.           *)

\* The try blocks of cleanup, in order (lines 714-787).
CleanupSteps == <<"stop_motion", "gpio", "frames", "oled_close", "leds_off", "fan_off",
                  "board_end">>

Frame(f, pc) == [f |-> f, pc |-> pc]
Top == stack[Len(stack)]
ReplaceTop(frame) == [stack EXCEPT ![Len(stack)] = frame]
Pop == SubSeq(stack, 1, Len(stack) - 1)

\* lines 99-104: OLED(); on an exception sys.exit(1) inside the constructor.
\* pi_monitor is still None in __main__ and atexit.register (line 128) was not
\* reached, so neither the finally block nor the exit hook calls cleanup.
MainOled(ok) ==
    /\ main_pc = "start"
    /\ IF ok THEN /\ oled_open' = TRUE
                  /\ main_pc' = "board"
                  /\ exit_code' = exit_code
             ELSE /\ oled_open' = FALSE
                  /\ main_pc' = "exited"
                  /\ exit_code' = 1
    /\ UNCHANGED <<displayVars, fanVars, ledVars, motionVars, loopVars, stack, stop_event,
                   cleanup_done, cleanup_log, n_signals, board_open>>

\* lines 106-126: Expansion() and the first commands to the board; on an
\* exception sys.exit(1).  "no_board": Expansion() itself raised; "board_fault":
\* a later command raised, the board handle exists.  Lines 128-130 then
\* register cleanup with atexit and install handle_signal.
MainBoard(outcome) ==
    /\ main_pc = "board"
    /\ board_open' = (outcome # "no_board")
    /\ IF outcome = "ok" THEN /\ main_pc' = "run"
                              /\ exit_code' = exit_code
                         ELSE /\ main_pc' = "exited"
                              /\ exit_code' = 1
    /\ UNCHANGED <<displayVars, fanVars, ledVars, motionVars, loopVars, stack, stop_event,
                   cleanup_done, cleanup_log, n_signals, oled_open>>

\* SIGTERM or SIGINT is delivered: handle_signal starts on top of whatever the
\* main thread is doing, cleanup and an earlier handle_signal included.
Signal ==
    /\ main_pc \in {"run", "finally", "finally_ret", "atexit", "atexit_ret"}
    /\ n_signals < MaxSignals
    /\ n_signals' = n_signals + 1
    /\ stack' = Append(stack, Frame("handle_signal", 1))
    /\ UNCHANGED <<displayVars, fanVars, ledVars, motionVars, loopVars, main_pc,
                   stop_event, cleanup_done, cleanup_log, exit_code, oled_open, board_open>>

\* handle_signal, lines 791-793.  sys.exit(0) raises SystemExit, which no
\* `except Exception` catches: it ends every call on the main thread, cleanup
\* calls in progress included, and __main__ goes to its finally block (or, from
\* there, to the interpreter's exit, or out of the exit hook).
HandleSignalStep ==
    /\ stack # <<>>
    /\ Top.f = "handle_signal"
    /\ IF Top.pc = 1
          THEN /\ stop_event' = TRUE
               /\ stack' = ReplaceTop(Frame("handle_signal", 2))
               /\ UNCHANGED <<main_pc, exit_code>>
       ELSE IF Top.pc = 2
          THEN /\ stack' = Append(ReplaceTop(Frame("handle_signal", 3)), Frame("cleanup", 0))
               /\ UNCHANGED <<main_pc, exit_code, stop_event>>
          ELSE /\ stack' = <<>>
               /\ main_pc' = IF main_pc = "run" THEN "finally"
                             ELSE IF main_pc \in {"finally", "finally_ret"} THEN "atexit"
                             ELSE "exited"
               /\ exit_code' = IF main_pc \in {"atexit", "atexit_ret"} THEN 0 ELSE exit_code
               /\ UNCHANGED stop_event
    /\ UNCHANGED <<displayVars, fanVars, ledVars, motionVars, loopVars, cleanup_done,
                   cleanup_log, n_signals, oled_open, board_open>>

\* lines 716-718: motion_thread.join(timeout=2) returns when the thread has
\* ended or after 2 s.  No thread, or one that is not alive, is not joined.  The
\* camera thread sleeps 1.5 s at most between two tests of stop_event, so the
\* join times out only over a capture (rpicam-still is given up to 5 s).
JoinReturns == "camera" \notin threads \/ cam_pc = "capture"

\* cleanup, lines 709-787: the test of cleanup_done (pc 0), its assignment
\* (pc 1), then one try block after the other.  The third one unlinks every
\* frame_*.jpg of capture_dir.
CleanupStep ==
    /\ stack # <<>>
    /\ Top.f = "cleanup"
    /\ IF Top.pc = 0
          THEN /\ stack' = IF cleanup_done THEN Pop ELSE ReplaceTop(Frame("cleanup", 1))
               /\ UNCHANGED <<cleanup_done, cleanup_log, stop_event, oled_open, board_open>>
       ELSE IF Top.pc = 1
          THEN /\ cleanup_done' = TRUE
               /\ stack' = ReplaceTop(Frame("cleanup", 2))
               /\ UNCHANGED <<cleanup_log, stop_event, oled_open, board_open>>
          ELSE LET step == CleanupSteps[Top.pc - 1] IN
               /\ step = "stop_motion" => JoinReturns
               /\ cleanup_log' = Append(cleanup_log, step)
               /\ stop_event' = (stop_event \/ (step = "stop_motion" /\ threads # {}))
               /\ IF step = "frames"
                     THEN /\ frames' = [slot \in 0..1 |-> NO_FRAME]
                          /\ mtime' = [name \in FrameNames |-> 0]
                          /\ frame_ids' = [slot \in 0..1 |-> 0]
                     ELSE UNCHANGED <<frames, mtime, frame_ids>>
               /\ oled_open' = (oled_open /\ step # "oled_close")
               /\ board_open' = (board_open /\ step # "board_end")
               /\ stack' = IF Top.pc - 1 = Len(CleanupSteps) THEN Pop
                           ELSE ReplaceTop(Frame("cleanup", Top.pc + 1))
               /\ UNCHANGED cleanup_done
    /\ Top.pc < 2 => UNCHANGED <<frames, mtime, frame_ids>>
    /\ UNCHANGED <<displayVars, fanVars, ledVars, loopVars, main_pc, exit_code, n_signals,
                   motion_pc, PIR_AVAILABLE, pir_available, pir_initialized,
                   use_camera_fallback, pir_setup, started, threads, last_state,
                   last_pir_log_time, pin_trace, pir_logs, frame_count, cam_iter, swept,
                   last_motion_log_time, cam, poll_error, cam_pc>>

\* An exception leaves run_monitor_loop (a collaborator raised); __main__
\* catches it at line 892 and goes on to its finally block.
LoopRaises ==
    /\ main_pc = "run"
    /\ stack = <<>>
    /\ main_pc' = "finally"
    /\ UNCHANGED <<displayVars, fanVars, ledVars, motionVars, loopVars, stack, stop_event,
                   cleanup_done, cleanup_log, exit_code, n_signals, oled_open, board_open>>

\* lines 894-898 (pi_monitor is bound once the loop has started), then the
\* interpreter's exit with the atexit hook of line 128.
MainStep ==
    /\ stack = <<>>
    /\ main_pc \in {"finally", "finally_ret", "atexit", "atexit_ret"}
    /\ IF main_pc = "finally"
          THEN /\ stop_event' = TRUE
               /\ stack' = <<Frame("cleanup", 0)>>
               /\ main_pc' = "finally_ret"
               /\ exit_code' = exit_code
       ELSE IF main_pc = "finally_ret"
          THEN /\ main_pc' = "atexit"
               /\ UNCHANGED <<stop_event, stack, exit_code>>
       ELSE IF main_pc = "atexit"
          THEN /\ stack' = <<Frame("cleanup", 0)>>
               /\ main_pc' = "atexit_ret"
               /\ UNCHANGED <<stop_event, exit_code>>
          ELSE /\ main_pc' = "exited"
               /\ exit_code' = 0
               /\ UNCHANGED <<stop_event, stack>>
    /\ UNCHANGED <<displayVars, fanVars, ledVars, motionVars, loopVars, cleanup_done,
                   cleanup_log, n_signals, oled_open, board_open>>

NextLife ==
    \/ \E ok \in BOOLEAN : MainOled(ok)
    \/ \E outcome \in {"ok", "no_board", "board_fault"} : MainBoard(outcome)
    \/ Signal
    \/ HandleSignalStep
    \/ CleanupStep
    \/ LoopRaises
    \/ MainStep

SpecLife == Init /\ [][NextLife]_vars

----------------------------------------------------------------------------
(* SpecStop: the camera thread next to the shutdown of the main thread       *)

\* line 544: while not self.stop_event.is_set(); then line 549 enters
\* _capture_frame.  The thread is a daemon: it is gone once the process exits.
CamTest ==
    /\ motion_pc = "run"
    /\ main_pc # "exited"
    /\ "camera" \in threads
    /\ cam_pc = "test"
    /\ IF stop_event
          THEN /\ threads' = threads \ {"camera"}
               /\ cam_pc' = cam_pc
          ELSE /\ threads' = threads
               /\ cam_pc' = "capture"
    /\ UNCHANGED <<displayVars, fanVars, ledVars, ctlVars, motion_pc, PIR_AVAILABLE,
                   pir_available, pir_initialized, use_camera_fallback, pir_setup,
                   started, last_state, last_pir_log_time, pin_trace, pir_logs,
                   frame_count, frames, mtime, frame_ids, cam_iter, swept,
                   last_motion_log_time, cam, poll_error>>

\* lines 549-573: _capture_frame returns (rpicam-still has written the file, or
\* failed) and the iteration runs to its end.
CamCaptureEnd(capture) ==
    /\ main_pc # "exited"
    /\ cam_pc = "capture"
    /\ cam_pc' = "test"
    /\ CameraPoll(capture, TRUE, 0, <<"ok", "ok">>)

\* line 136: the constructor starts the motion strategy (here the camera) once
\* the boards are initialised; __main__ then enters run_monitor_loop.
NextStop ==
    \/ MainOled(TRUE)
    \/ MainBoard("ok")
    \/ main_pc = "run" /\ stack = <<>> /\ ~stop_event /\ InitMotionDetection(FALSE, "none")
    \/ CamTest
    \/ \E capture \in {1000, CAPTURE_FAILED} :
          frame_count < MaxFrames /\ CamCaptureEnd(capture)
    \/ motion_pc = "run" /\ Signal
    \/ HandleSignalStep
    \/ CleanupStep
    \/ motion_pc = "run" /\ LoopRaises
    \/ MainStep

SpecStop == Init /\ [][NextStop]_vars

----------------------------------------------------------------------------
(* Claims about the display power state machine *)

OffCalls == Cardinality({i \in DOMAIN driver_log : driver_log[i] = FALSE})

\* C1: the display is OFF until the first MotionEvent, and the first MotionEvent
\* delivery leaves is_on = true, the power-on driver invoked exactly once (and
\* nothing else invoked) and last_activity equal to the time of the event.
C1_FirstEventWakes ==
    /\ n_events = 0 => (~hdmi_on /\ driver_log = <<>>)
    /\ (n_events = 1 /\ last_op = "wake") =>
          (hdmi_on /\ driver_log = <<TRUE>> /\ last_activity = now /\ la_event = 1)

C1_Witness ==
    /\ n_events = 1 /\ last_op = "wake" /\ now > StartTime
    /\ hdmi_on /\ driver_log = <<TRUE>> /\ last_activity = now

\* C2: a timeout check switches the display OFF and invokes the power-off driver
\* (once) exactly when is_on = true and now - last_activity > hdmi_timeout; in
\* every other case, an elapsed time equal to hdmi_timeout included, it changes
\* nothing and invokes no driver.
C2_TimeoutCheck ==
    [][last_op' = "check" =>
          IF hdmi_on /\ (now - last_activity) > hdmi_timeout
             THEN ~hdmi_on' /\ driver_log' = Append(driver_log, FALSE)
                  /\ last_activity' = last_activity
             ELSE hdmi_on' = hdmi_on /\ driver_log' = driver_log
                  /\ last_activity' = last_activity]_vars

\* a check at exactly hdmi_timeout seconds after the last activity left the display ON
C2_Witness ==
    /\ last_op = "check" /\ hdmi_on
    /\ now - last_activity = hdmi_timeout
    /\ driver_log = <<TRUE>>

\* C3: every MotionEvent delivery sets last_activity to the event time, whether the
\* display was ON or OFF; a delivery while ON leaves is_on = true and invokes no
\* driver.
C3_EventRefreshes ==
    [][n_events' = n_events + 1 =>
          /\ last_activity' = now'
          /\ hdmi_on => (hdmi_on' /\ driver_log' = driver_log)]_vars

\* the second event arrived while the display was ON, later than the first
C3_Witness ==
    /\ n_events = 2 /\ last_op = "wake" /\ hdmi_on
    /\ driver_log = <<TRUE>> /\ last_activity = now /\ now > StartTime + 1

\* C4: with one MotionEvent and no further one, every timeout check made once more
\* than hdmi_timeout seconds have elapsed leaves the display OFF with the power-off
\* driver invoked exactly once in total, however many checks follow.
C4_OffExactlyOnce ==
    n_events = 1 =>
        /\ OffCalls <= 1
        /\ (last_op = "check" /\ (now - last_activity) > hdmi_timeout) =>
               (~hdmi_on /\ driver_log = <<TRUE, FALSE>>)

\* a check made some time after the one that switched the display OFF
C4_Witness ==
    /\ n_events = 1 /\ last_op = "check" /\ ~hdmi_on
    /\ now - last_activity > 2 * hdmi_timeout
    /\ driver_log = <<TRUE, FALSE>>

\* C5: in every state with is_on = true, last_activity was written by the most
\* recent MotionEvent or by the delivery that switched the display ON, also
\* between the lines of a delivery in progress.
C5_OnImpliesFreshActivity ==
    hdmi_on => (la_event = n_events \/ la_event = on_event)

\* C6: once both handlers have returned, the display is never OFF with a
\* last_activity written after the display was switched OFF.
C6_NoOffWithLaterActivity ==
    (m_pc = "m_poll" /\ c_pc \in {"c_check", "c_rest"} /\ ~hdmi_on) => ~la_since_off

\* C7: the power driver writes neither is_on nor last_activity (so a power-off
\* invoked while already OFF leaves the display OFF and last_activity as it was),
\* and no line of the timeout check writes last_activity.
C7_DriverFrame ==
    [][/\ driver_log' # driver_log =>
             (hdmi_on' = hdmi_on /\ last_activity' = last_activity)
       /\ c_pc' # c_pc => last_activity' = last_activity]_vars

\* the power-off driver has just run with the display already marked OFF
C7_Witness ==
    /\ c_pc = "c_rest" /\ ~hdmi_on
    /\ Len(driver_log) > 0 /\ driver_log[Len(driver_log)] = FALSE
    /\ ~driver_ok

----------------------------------------------------------------------------
(* Claims about the fan controller *)

LimitBefore(i) == IF i = 1 THEN 0 ELSE fan_trace[i - 1].limit
DutyBefore(i) == IF i = 1 THEN 0 ELSE fan_trace[i - 1].duty

\* C8: on every tick with a readable PWM, limit_engaged = false and signal > high
\* give duty = max and limit_engaged = true; limit_engaged = true and signal < low
\* give duty = min and limit_engaged = false; every other case (signal equal to
\* high or to low included) leaves the state as it was and issues no command.
\* The samples 30, 60, 45, 35 give the engaged states false, true, true, false.
C8_Hysteresis ==
    /\ \A i \in DOMAIN fan_trace :
          LET e == fan_trace[i] IN
          e.readable =>
             IF LimitBefore(i) = 0 /\ e.temp > 50
                THEN e.duty = 255 /\ e.limit = 1 /\ e.cmd = << <<255, 255>> >>
             ELSE IF LimitBefore(i) = 1 /\ e.temp < 40
                THEN e.duty = 0 /\ e.limit = 0 /\ e.cmd = << <<0, 0>> >>
             ELSE e.duty = DutyBefore(i) /\ e.limit = LimitBefore(i) /\ e.cmd = <<>>
    /\ (/\ Len(fan_trace) >= 4
        /\ \A i \in 1..4 : fan_trace[i].readable
        /\ [i \in 1..4 |-> fan_trace[i].temp] = <<30, 60, 45, 35>>)
          => [i \in 1..4 |-> fan_trace[i].limit] = <<0, 1, 1, 0>>

C8_Witness ==
    /\ Len(fan_trace) = 4
    /\ \A i \in 1..4 : fan_trace[i].readable
    /\ [i \in 1..4 |-> fan_trace[i].temp] = <<30, 60, 45, 35>>
    /\ last_fan_pwm_limit = 0
    /\ fan_cmds = << <<255, 255>>, <<0, 0>> >>

\* C9: a tick whose PWM read returned the sentinel changes neither limit_engaged
\* nor the duty and issues no command, whatever the temperature.
C9_SentinelSkipsTick ==
    \A i \in DOMAIN fan_trace :
        LET e == fan_trace[i] IN
        ~e.readable =>
            (e.limit = LimitBefore(i) /\ e.duty = DutyBefore(i) /\ e.cmd = <<>>)

\* the read failed on a hot tick with the fan released, and on a cool tick with
\* the fan engaged
C9_Witness ==
    \E i, j \in DOMAIN fan_trace :
        /\ ~fan_trace[i].readable /\ fan_trace[i].temp > 50 /\ fan_trace[i].limit = 0
        /\ ~fan_trace[j].readable /\ fan_trace[j].temp < 40 /\ fan_trace[j].limit = 1

\* C10: the fan state is always (not engaged, min_pwm) or (engaged, max_pwm), and
\* every command issued carries min_pwm or max_pwm.
C10_TwoLevel ==
    /\ <<last_fan_pwm_limit, last_fan_pwm>> \in {<<0, min_pwm>>, <<1, max_pwm>>}
    /\ \A i \in DOMAIN fan_cmds :
          fan_cmds[i] \in {<<min_pwm, min_pwm>>, <<max_pwm, max_pwm>>}

\* the fan has been engaged and released again
C10_Witness ==
    /\ last_fan_pwm_limit = 0 /\ last_fan_pwm = min_pwm
    /\ Len(fan_cmds) = 2 /\ fan_cmds[2] = <<min_pwm, min_pwm>>

----------------------------------------------------------------------------
(* Claims about the status indicators *)

Ticked == snap # <<>>

\* C11: Health is Critical (red) iff temp > 70 or cpu > 90 or mem > 90 or
\* disk > 95; otherwise Warning (yellow) iff temp > 55 or cpu > 75 or mem > 80 or
\* disk > 85; otherwise Normal (green).  All comparisons are strict: temp = 70
\* alone is Warning, temp = 55 alone is Normal, temp = 71 alone is Critical.
C11_Health ==
    Ticked =>
        LET temp == snap[1]  cpu == snap[2]  mem == snap[3]  disk == snap[4] IN
        /\ led[3] = <<255, 0, 0>>
              <=> (temp > 70 \/ cpu > 90 \/ mem > 90 \/ disk > 95)
        /\ led[3] = <<255, 255, 0>>
              <=> (/\ ~(temp > 70 \/ cpu > 90 \/ mem > 90 \/ disk > 95)
                   /\ (temp > 55 \/ cpu > 75 \/ mem > 80 \/ disk > 85))
        /\ led[3] = <<0, 255, 0>>
              <=> ~(temp > 55 \/ cpu > 75 \/ mem > 80 \/ disk > 85
                    \/ temp > 70 \/ cpu > 90 \/ mem > 90 \/ disk > 95)
        /\ snap = <<70, 10, 10, 10>> => led[3] = <<255, 255, 0>>
        /\ snap = <<55, 10, 10, 10>> => led[3] = <<0, 255, 0>>
        /\ snap = <<56, 10, 10, 10>> => led[3] = <<255, 255, 0>>

\* one critical metric, every other metric normal
C11_Witness == snap = <<71, 10, 10, 10>> /\ led[3] = <<255, 0, 0>>

C15_OwnChannel ==
    Ticked =>
        /\ [i \in DOMAIN led_calls |-> led_calls[i][1]] = <<0, 1, 2, 3>>
        /\ \A i \in 1..4 : led[i - 1] = led_calls[i][2]
        /\ led[2] \in {<<255, 0, 0>>, <<255, 255, 255>>, <<0, 0, 100>>}

\* every channel has been written, with four different colours
C15_Witness ==
    /\ Ticked
    /\ [i \in DOMAIN led_calls |-> led_calls[i][1]] = <<0, 1, 2, 3>>
    /\ Cardinality({led[ch] : ch \in 0..3}) = 4

----------------------------------------------------------------------------
(* Claims about the motion strategies *)

\* the number of low-to-high steps of a sequence of pin reads that starts
\* after a low level
RECURSIVE RisingEdges(_)
RisingEdges(trace) ==
    IF trace = <<>> THEN 0
    ELSE LET n == Len(trace)
             before == IF n = 1 THEN 0 ELSE trace[n - 1]
         IN RisingEdges(SubSeq(trace, 1, n - 1))
              + (IF trace[n] = 1 /\ before = 0 THEN 1 ELSE 0)

\* C16: at startup the PIR strategy is selected iff the GPIO capability is
\* available and the PIR initialisation completes without error; in every other
\* case the camera strategy is started instead, and the start-up goes on.
C16_StrategySelection ==
    motion_pc = "run" =>
        /\ "pir" \in started <=> (PIR_AVAILABLE /\ pir_setup = "ok")
        /\ "camera" \in started <=> ~(PIR_AVAILABLE /\ pir_setup = "ok")
        /\ pir_initialized <=> "pir" \in started
        /\ use_camera_fallback <=> "camera" \in started

\* the capability is there, the initialisation raised, the camera runs
C16_Witness ==
    /\ motion_pc = "run"
    /\ PIR_AVAILABLE
    /\ pir_setup = "raise"
    /\ started = {"camera"}
    /\ threads = {"camera"}

\* C17: after initialisation exactly one polling thread is active, never both
\* and never none, and it is the one that was selected, whatever errors the
\* strategy meets later.
C17_ExactlyOneActive ==
    motion_pc = "run" =>
        /\ Cardinality(threads) = 1
        /\ threads = started
        /\ use_camera_fallback <=> threads = {"camera"}

\* C18: the PIR strategy invokes the wake callback exactly once per rising edge
\* of the polled pin and at no other time; the wake is invoked also when the
\* log line of the edge is suppressed by the 30 s throttle.
C18_WakePerRisingEdge ==
    (motion_pc = "run" /\ "pir" \in started) =>
        /\ n_events = RisingEdges(pin_trace)
        /\ pir_logs <= n_events

\* two rising edges within 30 s, one log line; the other polls are a pin that
\* stays or falls
C18_Witness ==
    /\ "pir" \in started
    /\ Len(pin_trace) = MaxPolls
    /\ n_events = 2
    /\ pir_logs = 1

C20_PollErrorSwallowed ==
    (motion_pc = "run" /\ poll_error) => threads = started

----------------------------------------------------------------------------
(* Claims about the power driver *)

\* C27: one invocation of the power driver attempts every method of its
\* ordered list, in order, whether the earlier methods succeeded, failed or
\* raised, and returns to its caller.
C27_DriverTriesAll ==
    driver_log # <<>> =>
        /\ [i \in DOMAIN driver_tried |-> driver_tried[i][1]]
              = IF driver_log[Len(driver_log)]
                   THEN <<"xset on", "xrandr auto">>
                   ELSE <<"xset standby", "xset off", "xrandr off">>
        /\ last_op \in {"wake", "check", "advance"}

\* a power-off whose first method succeeds, whose second raises and whose
\* third returns a non-zero code
C27_Witness ==
    driver_tried = << <<"xset standby", "ok">>, <<"xset off", "raise">>,
                      <<"xrandr off", "nonzero">> >>

\* C28: is_on is set from the requested transition alone: true after a wake
\* from OFF, false after a timeout, also when every method of the driver
\* failed.
C28_OptimisticFlag ==
    /\ driver_log # <<>> => hdmi_on = driver_log[Len(driver_log)]
    /\ last_op = "wake" => hdmi_on

\* a wake from OFF all of whose methods failed
C28_Witness ==
    /\ last_op = "wake"
    /\ driver_log = <<TRUE>>
    /\ \A i \in DOMAIN driver_tried : driver_tried[i][2] # "ok"
    /\ hdmi_on

----------------------------------------------------------------------------
(* Claims about the frame of the motion task *)

\* C21: the motion thread, and every thread it starts, leaves the fan and the
\* four indicator channels alone: once the control loop has ticked, each
\* channel (channel 3, Health, in particular) shows the colour the control
\* loop's mapper wrote last, and no fan command was issued by a motion event.
C21_MotionLeavesIndicators ==
    Ticked =>
        /\ \A ch \in 0..3 : led[ch] = led_calls[ch + 1][2]
        /\ fan_cmds = <<>>

\* C21 as amended: the motion thread and the threads it starts never write the
\* fan or the channels 0, 1, 2; channel 3 shows the control loop's last Health
\* colour or what a blink thread wrote over it (bright white, or off).
C21_MotionLeavesOtherChannels ==
    /\ fan_cmds = <<>>
    /\ \A ch \in 0..2 : led[ch] = IF Ticked THEN led_calls[ch + 1][2] ELSE <<0, 0, 0>>
    /\ led[3] \in {<<255, 255, 255>>, <<0, 0, 0>>}
                    \cup (IF Ticked THEN {led_calls[4][2]} ELSE {})

\* a blink thread half way, LED 3 white over the Health colour of the last tick
C21_Witness ==
    /\ Ticked
    /\ led[3] = <<255, 255, 255>>
    /\ led_calls[4][2] = <<255, 0, 0>>
    /\ \E i \in DOMAIN blink : blink[i] = 3

HealthColours == {<<255, 0, 0>>, <<255, 255, 0>>, <<0, 255, 0>>}
NoBlinkRunning == \A i \in DOMAIN blink : blink[i] = 0

----------------------------------------------------------------------------
(* Claims about the control loop *)

\* the positions of a step in the log of the current tick
Positions(name) == {i \in DOMAIN tick_log : tick_log[i] = name}
MidTick == t_pc = 0 \/ t_pc > 1

\* C24: the display timeout check runs exactly once on every tick, as the
\* first step of the tick, before any sensor is read, whichever motion strategy
\* is active.
C24_TimeoutCheckFirst ==
    /\ tick_log # <<>> => Positions("timeout") = {1}
    /\ MidTick => tick_log # <<>>
    /\ n_checks = oled_counter + (IF MidTick /\ Positions("oled") = {} THEN 1
                                  ELSE IF t_pc = 0 THEN 1 ELSE 0)

\* the camera strategy is active, the second tick has run its check and read
\* its sensors
C24_Witness ==
    /\ use_camera_fallback
    /\ oled_counter = 1
    /\ tick_log = <<"timeout", "sensors">>
    /\ n_checks = 2

\* C25: within every tick the sensors are read, then the fan controller is
\* evaluated, then the indicator mapper: the fan step of a tick comes before
\* that tick's indicator writes.
C25_FanBeforeIndicators ==
    \A i \in Positions("fan"), j \in Positions("leds") : i < j

\* C25 as amended: within every tick the sensors are read, then the four
\* indicator mappers are evaluated and their results forwarded, then the fan
\* controller is evaluated: the fan decision of a tick is issued after that
\* tick's indicator writes.
C25_IndicatorsBeforeFan ==
    /\ \A i \in Positions("sensors"), j \in Positions("leds") : i < j
    /\ \A i \in Positions("leds"), j \in Positions("fan") : i < j
    /\ Positions("fan") # {} => Positions("leds") # {} /\ Positions("sensors") # {}
    /\ Positions("leds") # {} => Len(led_calls) = 4

\* a tick whose fan step switched the fan on after the indicators were written
C25_Witness ==
    /\ tick_log = <<"timeout", "sensors", "leds", "fan">>
    /\ fan_cmds = <<<<255, 255>>>>
    /\ snap = <<60, 10, 10, 10>>

\* C26: a screen is rendered on exactly every 3rd tick (ticks 0, 3, 6, ...),
\* the screen index is in 0..3, successive renders show 0, 1, 2, 3, 0, ... and
\* the index advances only with a render.
C26_ScreenRotation ==
    /\ oled_screen \in 0..3
    /\ Len(oled_renders) = (oled_counter + 2) \div 3
    /\ \A i \in DOMAIN oled_renders : oled_renders[i] = <<3 * (i - 1), (i - 1) % 4>>
    /\ oled_screen = Len(oled_renders) % 4

\* the fifth render, at tick 12, shows screen 0 again
C26_Witness ==
    /\ Len(oled_renders) = 5
    /\ oled_renders[5] = <<12, 0>>
    /\ oled_counter = 13

\* C30: a hardware fault during a tick is no change for that tick: the control
\* loop goes on with the next tick.
C30_FaultIsNoChange ==
    fault => t_pc # 0

----------------------------------------------------------------------------
(* Claims about start-up and shutdown *)

TimesRun(step) == Cardinality({i \in DOMAIN cleanup_log : cleanup_log[i] = step})

\* C22: the cleanup sequence executes exactly once, every step run once and
\* none skipped or repeated, for any number and timing of signals combined
\* with the atexit hook and the finally block, a signal during cleanup
\* included.
C22_CleanupExactlyOnce ==
    /\ \A i \in DOMAIN CleanupSteps : TimesRun(CleanupSteps[i]) <= 1
    /\ (main_pc = "exited" /\ cleanup_done) => cleanup_log = CleanupSteps

\* C23: after a stop signal the loops end and the cleanup sequence has run,
\* down to its last step, before the process exits.
C23_CleanupBeforeExit ==
    (main_pc = "exited" /\ n_signals >= 1) =>
        /\ stop_event
        /\ TimesRun("board_end") >= 1

\* C29: a hardware initialisation failure at startup ends the process with a
\* non-zero status, after cleanup of whatever was already initialised.
C29_InitFailureCleansUp ==
    (main_pc = "exited" /\ ~cleanup_done) =>
        /\ exit_code # 0
        /\ ~oled_open
        /\ ~board_open

----------------------------------------------------------------------------
(* Claims about the camera strategy and its files *)

\* C31: when a camera capture fails, no motion event is emitted for that poll,
\* the frame counter is not advanced (the same slot is retried), the loop backs
\* off for one more second before the next attempt, and the camera loop goes on.
C31_CaptureFailure ==
    (cam_iter # <<>> /\ ~cam_iter[1]) =>
        /\ n_events = cam_iter[3]
        /\ frame_count = cam_iter[2]
        /\ cam_iter[4] = 10 + 5
        /\ "camera" \in threads

\* a capture failed after two frames and one motion event; slot 0 is retried
C31_Witness ==
    /\ cam_iter # <<>>
    /\ ~cam_iter[1]
    /\ frame_count = 2
    /\ n_events = 1
    /\ frame_ids[1] = 2

\* C32: each capture goes to slot frame_count mod 2 and is compared with the
\* other slot; after any sequence of successful and failed captures the other
\* slot holds the latest successfully captured frame, the two slots hold
\* different frames, and the first captured frame produces no motion event.
C32_TwoSlots ==
    (motion_pc = "run" /\ cam_iter # <<>>) =>
        /\ frame_count > 0 => frame_ids[(frame_count + 1) % 2] = frame_count
        /\ frame_ids[0] # 0 => frame_ids[0] # frame_ids[1]
        /\ (cam_iter[1] /\ cam # <<>>) =>
              /\ cam[2] = frames[cam_iter[2] % 2]
              /\ cam[1] = frames[(cam_iter[2] + 1) % 2]
        /\ (cam_iter[1] /\ cam_iter[2] = 0) => (n_events = 0 /\ cam = <<>>)
        /\ frame_count = 0 => n_events = 0

\* three frames captured, then a capture into slot 1 that failed and left an
\* empty file: slot 0 still holds the third frame
C32_Witness ==
    /\ cam_iter # <<>>
    /\ ~cam_iter[1]
    /\ frame_count = 3
    /\ frame_ids[0] = 3
    /\ frame_ids[1] = 0
    /\ frames[1] = 0

FrameFiles(mt) == {name \in FrameNames : mt[name] # 0}

----------------------------------------------------------------------------
(* Claims about the indicators taken together *)

\* C39: the indicators of one tick are consistent: when Health is Normal
\* (green), Temperature is not VeryHot (red) and DiskActivity is not Full
\* (red); Temperature VeryHot or DiskActivity Full implies Health Warning
\* (yellow) or Critical (red).
C39_IndicatorsConsistent ==
    Ticked =>
        /\ led_calls[4][2] = <<0, 255, 0>> =>
              (led_calls[1][2] # <<255, 0, 0>> /\ led_calls[3][2] # <<255, 0, 0>>)
        /\ (led[0] = <<255, 0, 0>> \/ led[2] = <<255, 0, 0>>) =>
              led[3] \in {<<255, 255, 0>>, <<255, 0, 0>>}
        /\ (snap[1] >= 60 \/ snap[4] > 90) => led[3] # <<0, 255, 0>>

\* the lowest VeryHot temperature with every other metric normal: Health is
\* Warning
C39_Witness ==
    /\ snap = <<60, 10, 10, 10>>
    /\ led[0] = <<255, 0, 0>>
    /\ led[3] = <<255, 255, 0>>

\* C34: on a tick that detects a change of the disk byte total (a rise or a
\* fall) the last-activity time and the recorded total are updated, and on no
\* other tick; with disk% <= 90, such a tick shows Active, and a later tick
\* without a new change shows Active when less than 2 s have passed since the
\* change and Idle when 2 s or more have passed.
C34_GraceWindow ==
    [][ now' = now =>
          /\ disk_activity' =>
                /\ last_disk_activity' = now
                /\ last_disk_bytes' # last_disk_bytes
                /\ snap'[4] <= 90 => led'[2] = <<255, 255, 255>>
          /\ ~disk_activity' =>
                /\ UNCHANGED <<last_disk_activity, last_disk_bytes>>
                /\ snap'[4] <= 90 =>
                      led'[2] = IF now - last_disk_activity < 2
                                   THEN <<255, 255, 255>>
                                   ELSE <<0, 0, 100>>
      ]_vars

\* the byte total fell back to 0 (a change), and a tick one second later,
\* without a new change, still shows Active
C34_Witness ==
    /\ Ticked
    /\ snap[4] <= 90
    /\ ~disk_activity
    /\ last_disk_bytes = 0
    /\ last_disk_activity > StartTime
    /\ led_time - last_disk_activity = 1
    /\ led[2] = <<255, 255, 255>>

----------------------------------------------------------------------------
(* Claims about the power driver and the two threads *)

\* C35: whenever no call of the power driver is in flight and at least one has
\* returned, the direction of the call that returned last equals is_on: a
\* power-on of the motion thread and a power-off of the control loop neither
\* overlap nor return in an order that leaves the display commanded ON with
\* is_on = false.  (A handler that has written is_on and is about to enter the
\* driver counts as a call in flight.)
C35_LastCommandMatchesFlag ==
    (/\ m_pc \notin {"m_power", "m_driver"}
     /\ c_pc \notin {"c_power", "c_driver"}
     /\ driver_log # <<>>) =>
        driver_log[Len(driver_log)] = hdmi_on

----------------------------------------------------------------------------
(* Claims about the fan controller and the sensor readers *)

\* C36: while limit_engaged is true, a tick on which the CPU temperature read
\* fails (the reader returns its fallback 0) does not disengage the fan: the
\* duty stays max and limit_engaged stays true.
C36_FailedReadKeepsFan ==
    \A i \in 2..Len(fan_trace) :
        (fan_trace[i - 1].limit = 1 /\ ~fan_trace[i].temp_ok) =>
            /\ fan_trace[i].limit = 1
            /\ fan_trace[i].duty = max_pwm
            /\ fan_trace[i].cmd = <<>>

----------------------------------------------------------------------------
(* Claims about the camera thread at shutdown *)

\* C37: when cleanup has returned, the motion thread has stopped and no
\* frame_*.jpg file exists in the capture directory, and none is created
\* afterwards, for every interleaving of cleanup with the camera thread, a
\* capture in progress when cleanup began included.
C37_NoFramesAfterCleanup ==
    cleanup_log = CleanupSteps =>
        /\ threads = {}
        /\ \A name \in FrameNames : mtime[name] = 0

====
